---- MODULE Spec2Model ----
(***************************************************************************)
(* Clinic appointment scheduler (src/aiproject.py): build_domains,         *)
(* select_unassigned_var, backtracking_search and schedule_for_date.       *)
(*                                                                         *)
(* Encoding of the data:                                                   *)
(*  - a doctor / patient id is its position in the list returned by        *)
(*    list_doctors / list_patients (rows ORDER BY id, ids unique);         *)
(*  - a slot label 'HH:MM' is the number of its position in the day; the   *)
(*    labels are zero padded, so string order is this numeric order;       *)
(*  - None and the empty string are both written "" (the code only tests   *)
(*    their truthiness);                                                   *)
(*  - preferred_slots is the sequence of its comma separated tokens, a     *)
(*    token being [label, pad]: label 0 is a token holding only blanks,    *)
(*    pad says that blanks surround the label;                             *)
(*  - a domain value is <<doctor id, slot>>.                               *)
(***************************************************************************)
EXTENDS Integers, Sequences, FiniteSets, TLC

\* Bounds of the explored inputs.
MaxPatients == 3
MaxDoctors == 2
MaxSlots == 2
MaxCap == 2
MaxWidePatients == 2

VARIABLES doctors, patients, slots, clear_existing, appointments,
          pc, domains, assigned, capacity_map, stack, result, outcome

vars == <<doctors, patients, slots, clear_existing, appointments,
          pc, domains, assigned, capacity_map, stack, result, outcome>>

Range(s) == {s[i] : i \in 1..Len(s)}

SeqsUpTo(S, n) == UNION {[1..k -> S] : k \in 0..n}

\* str.lower() on the specialty labels of the explored inputs.
Lower(s) ==
    CASE s = "Cardio" -> "cardio"
      [] s = "CARDIO" -> "cardio"
      [] s = "Derm" -> "derm"
      [] OTHER -> s

\* s.strip() of one token of the preferred_slots string.
Strip(tok) == tok.label

Token(l, p) == [label |-> l, pad |-> p]

\* generate_slots: the labels of the day, in ascending order.
generate_slots(n) == [i \in 1..n |-> i]

(***************************************************************************)
(* build_domains                                                           *)
(***************************************************************************)
pref_list(p) ==
    LET stripped == [i \in 1..Len(p.preferred_slots) |-> Strip(p.preferred_slots[i])]
        NonBlank(l) == l # 0
    IN  IF p.preferred_slots # <<>> THEN SelectSeq(stripped, NonBlank) ELSE <<>>

\* Line 172 without its test of a doctor that has no specialty.
SpecialtyOkLax(p, d) ==
    IF p.needs_specialist = 1 /\ p.specialty_required # ""
    THEN ~(d.specialty # "" /\ Lower(d.specialty) # Lower(p.specialty_required))
    ELSE TRUE

\* FALSE when the `continue` of line 173 skips doctor d for patient p.
SpecialtyOk(p, d) ==
    IF p.needs_specialist = 1 /\ p.specialty_required # ""
    THEN ~(d.specialty = "" \/ Lower(d.specialty) # Lower(p.specialty_required))
    ELSE TRUE

\* Lines 176-177 left out: every slot is kept.
SlotOkAny(p, slot) == TRUE

\* FALSE when the `continue` of line 177 skips the slot for patient p.
SlotOk(p, slot) ==
    ~(pref_list(p) # <<>> /\ slot \notin Range(pref_list(p)))

\* All (doctor, slot) pairs, doctor list order outer, slot order inner.
AllPairs(docs, sl) ==
    [k \in 1..(Len(docs) * Len(sl)) |->
        <<((k - 1) \div Len(sl)) + 1, sl[((k - 1) % Len(sl)) + 1]>>]

build_domains(pats, docs, sl) ==
    [pid \in 1..Len(pats) |->
        LET Allowed(v) == SpecialtyOk(pats[pid], docs[v[1]]) /\ SlotOk(pats[pid], v[2])
        IN  SelectSeq(AllPairs(docs, sl), Allowed)]

doctor_capacity(docs) == [d \in 1..Len(docs) |-> docs[d].capacity_per_slot]

\* doctor_capacity.get(doc_id, 1)
cap_limit(caps, doc_id) == IF doc_id \in DOMAIN caps THEN caps[doc_id] ELSE 1

\* capacity_map.get(key, 0)
usage(cmap, key) == IF key \in DOMAIN cmap THEN cmap[key] ELSE 0

(***************************************************************************)
(* select_unassigned_var                                                   *)
(***************************************************************************)
RECURSIVE MRVLoop(_, _, _, _, _)
MRVLoop(pool, i, doms, best, best_len) ==
    IF i > Len(pool) THEN best
    ELSE LET v == pool[i]
             l == Len(doms[v])
         IN  IF best = 0 \/ l < best_len
             THEN MRVLoop(pool, i + 1, doms, v, l)
             ELSE MRVLoop(pool, i + 1, doms, best, best_len)

\* Line 192 without the emergency pool: every unassigned patient.
SelectionPoolNoPriority(doms, asg, pats) ==
    LET keys == [i \in 1..Len(pats) |-> i]
        NotAssigned(v) == v \notin DOMAIN asg
    IN  SelectSeq(keys, NotAssigned)

\* Line 189 without its test `vid not in assigned`.
SelectionPoolAssignedToo(doms, asg, pats) ==
    LET keys == [i \in 1..Len(pats) |-> i]
        IsEmergency(v) == pats[v].emergency # 0
        emergencies == SelectSeq(keys, IsEmergency)
    IN  IF emergencies # <<>> THEN emergencies ELSE keys

\* The pool of line 192; 0 stands for None in the result.
SelectionPool(doms, asg, pats) ==
    LET keys == [i \in 1..Len(pats) |-> i]
        NotAssigned(v) == v \notin DOMAIN asg
        unassigned == SelectSeq(keys, NotAssigned)
        IsEmergency(v) == pats[v].emergency # 0
        emergencies == SelectSeq(unassigned, IsEmergency)
    IN  IF emergencies # <<>> THEN emergencies ELSE unassigned

select_unassigned_var(doms, asg, pats) ==
    MRVLoop(SelectionPool(doms, asg, pats), 1, doms, 0, 0)

(***************************************************************************)
(* list.sort(key=lambda x: x[1]): a stable sort by slot                    *)
(***************************************************************************)
\* The place of s[i] after a stable sort by slot: behind the values of an
\* earlier slot and behind the values of its own slot that precede it in s.
SortedPlace(s, i) ==
    Cardinality({j \in 1..Len(s) : s[j][2] < s[i][2] \/ (s[j][2] = s[i][2] /\ j <= i)})

\* Line 224 left out: the values stay in the order of the domain.
SortBySlotNone(s) == s

SortBySlot(s) ==
    [k \in 1..Len(s) |-> s[CHOOSE i \in 1..Len(s) : SortedPlace(s, i) = k]]

(***************************************************************************)
(* backtracking_search.backtrack                                           *)
(***************************************************************************)
\* The test of line 231 written with > in place of >=.
LoopSaturatedOffByOne(cmap, caps, v) == usage(cmap, v) > cap_limit(caps, v[1])

\* Lines 229-231 of the value loop: the pair is full, the value is skipped.
LoopSaturated(cmap, caps, v) == usage(cmap, v) >= cap_limit(caps, v[1])

\* The test of line 250 written with > in place of >=.
FCSaturatedOffByOne(cmap, caps, v) == usage(cmap, v) > cap_limit(caps, v[1])

\* Lines 249-250 of forward checking: the pair is full, the value is removed.
FCSaturated(cmap, caps, v) == usage(cmap, v) >= cap_limit(caps, v[1])

\* The test of line 215 satisfied one patient early.
CompleteButOne(asg, doms) == Cardinality(DOMAIN asg) >= Len(doms) - 1

\* Line 215: every patient is assigned.
Complete(asg, doms) == Cardinality(DOMAIN asg) = Len(doms)

\* Forward checking, lines 239-259, over the patients k..n in list order.
\* acc = [domains, removed, failure]; removed is the removed_snapshot dict
\* as the sequence of its (other, removed values) items in insertion order.
RECURSIVE ForwardCheckFrom(_, _, _, _, _)
ForwardCheckFrom(k, acc, asg, cmap, caps) ==
    IF k > Len(acc.domains) THEN acc
    ELSE IF k \in DOMAIN asg THEN ForwardCheckFrom(k + 1, acc, asg, cmap, caps)
    ELSE LET Keep(v) == ~FCSaturated(cmap, caps, v)
             Drop(v) == FCSaturated(cmap, caps, v)
             new_domain == SelectSeq(acc.domains[k], Keep)
             removed == SelectSeq(acc.domains[k], Drop)
             snap == Append(acc.removed, <<k, removed>>)
         IN  IF new_domain = <<>>
             THEN [domains |-> acc.domains, removed |-> snap, failure |-> TRUE]
             ELSE ForwardCheckFrom(k + 1,
                      [domains |-> [acc.domains EXCEPT ![k] = new_domain],
                       removed |-> snap, failure |-> FALSE],
                      asg, cmap, caps)

ForwardCheck(doms, asg, cmap, caps) ==
    ForwardCheckFrom(1, [domains |-> doms, removed |-> <<>>, failure |-> FALSE],
                     asg, cmap, caps)

\* An undo that leaves the domains as forward checking cut them.
RestoreDomainsNone(doms, snap, i) == doms

\* Lines 272-276: put the removed values back and sort by slot.
RECURSIVE RestoreDomains(_, _, _)
RestoreDomains(doms, snap, i) ==
    IF i > Len(snap) THEN doms
    ELSE LET other == snap[i][1]
             removed == snap[i][2]
         IN  IF removed # <<>>
             THEN RestoreDomains(
                      [doms EXCEPT ![other] = SortBySlot(doms[other] \o removed)],
                      snap, i + 1)
             ELSE RestoreDomains(doms, snap, i + 1)

\* Lines 269-270 left out: an entry that reaches zero stays in the map.
DecrementKeepZero(cmap, key) ==
    [k \in DOMAIN cmap \cup {key} |->
        IF k = key THEN (IF key \in DOMAIN cmap THEN cmap[key] ELSE 1) - 1 ELSE cmap[k]]

\* Lines 268-270.
Decrement(cmap, key) ==
    LET n == (IF key \in DOMAIN cmap THEN cmap[key] ELSE 1) - 1
    IN  IF n = 0 THEN [k \in DOMAIN cmap \ {key} |-> cmap[k]]
        ELSE [k \in DOMAIN cmap \cup {key} |-> IF k = key THEN n ELSE cmap[k]]

\* Line 236.
Increment(cmap, key) ==
    [k \in DOMAIN cmap \cup {key} |-> IF k = key THEN usage(cmap, key) + 1 ELSE cmap[k]]

Put(asg, var, val) ==
    [k \in DOMAIN asg \cup {var} |-> IF k = var THEN val ELSE asg[k]]

Del(asg, var) == [k \in DOMAIN asg \ {var} |-> asg[k]]

MsgNoDoctors == "No doctors registered."
MsgNoPatients == "No patients registered."
MsgInfeasible == "Could not find feasible schedule with current constraints."
MsgScheduled == "Scheduled patients"

\* Lines 293-294 left out: only an empty doctor list is refused.
EmptyInputMessageDoctorsOnly(docs, pats) ==
    IF docs = <<>> THEN MsgNoDoctors ELSE ""

\* schedule_for_date, lines 291-294: the refusal of an empty input
\* ("" when the run goes on).
EmptyInputMessage(docs, pats) ==
    IF docs = <<>> THEN MsgNoDoctors
    ELSE IF pats = <<>> THEN MsgNoPatients
    ELSE ""

NoResult == [status |-> "none", mapping |-> <<>>]
NoOutcome == [ok |-> FALSE, msg |-> "", built |-> FALSE, searched |-> FALSE]

\* The `before` field of a frame whose value loop has placed nothing yet.
NoSnapshot == [domains |-> <<>>, assigned |-> <<>>, capacity_map |-> <<>>]

Top == stack[Len(stack)]
Caps == doctor_capacity(doctors)

(***************************************************************************)
(* Inputs                                                                  *)
(***************************************************************************)
DoctorRecords ==
    [specialty : {"", "Cardio"}, capacity_per_slot : 0..MaxCap]

PatientRecords ==
    [emergency : {0, 1},
     needs_specialist : {0, 1},
     specialty_required : {"CARDIO"},
     preferred_slots : {<<>>, <<Token(1, TRUE)>>}]

WideDoctorRecords ==
    [specialty : {"", "Cardio", "Derm"}, capacity_per_slot : {0, 1}]

WidePatientRecords ==
    [emergency : {0, 1},
     needs_specialist : {0, 1},
     specialty_required : {"", "CARDIO"},
     preferred_slots : {<<>>, <<Token(0, TRUE)>>,
                        <<Token(MaxSlots + 1, FALSE)>>,
                        <<Token(MaxSlots, TRUE), Token(MaxSlots + 1, FALSE)>>}]

DateDoctorRecords ==
    [specialty : {""}, capacity_per_slot : 0..MaxCap]

DatePatientRecords ==
    [emergency : {0, 1},
     needs_specialist : {0},
     specialty_required : {""},
     preferred_slots : {<<>>, <<Token(1, FALSE)>>}]

\* date_str of the call, and another day of the appointments table.
TheDate == "2026-01-05"
OtherDate == "2026-01-06"

\* Rows of the appointments table left by earlier runs: one for the date of
\* the call, one for another day.
OldAppointments ==
    <<[patient_id |-> 1, doctor_id |-> 1, slot |-> 1, date |-> TheDate],
      [patient_id |-> 1, doctor_id |-> 1, slot |-> 1, date |-> OtherDate]>>

\* clear_appointments_for_date left out: the rows stay.
ClearNothing(rows, date) == rows

\* clear_appointments_for_date: DELETE FROM appointments WHERE date = ?
clear_appointments_for_date(rows, date) ==
    LET Keep(r) == r.date # date
    IN  SelectSeq(rows, Keep)

InitSearch ==
    /\ pc = "idle"
    /\ domains = <<>>
    /\ assigned = <<>>
    /\ capacity_map = <<>>
    /\ stack = <<>>
    /\ result = NoResult
    /\ outcome = NoOutcome

Init ==
    /\ doctors \in SeqsUpTo(DoctorRecords, MaxDoctors)
    /\ patients \in SeqsUpTo(PatientRecords, MaxPatients)
    /\ slots = generate_slots(MaxSlots)
    /\ clear_existing = TRUE
    /\ appointments = OldAppointments
    /\ InitSearch

InitWide ==
    /\ doctors \in SeqsUpTo(WideDoctorRecords, MaxDoctors)
    /\ patients \in SeqsUpTo(WidePatientRecords, MaxWidePatients)
    /\ slots = generate_slots(MaxSlots)
    /\ clear_existing = TRUE
    /\ appointments = OldAppointments
    /\ InitSearch

\* The calls whose effect on the appointments table is followed: with and
\* without clear_existing, on an empty table and on one that has rows.
InitDate ==
    /\ doctors \in SeqsUpTo(DateDoctorRecords, MaxDoctors)
    /\ patients \in SeqsUpTo(DatePatientRecords, MaxWidePatients)
    /\ slots = generate_slots(MaxSlots)
    /\ clear_existing \in BOOLEAN
    /\ appointments \in {<<>>, OldAppointments}
    /\ InitSearch

(***************************************************************************)
(* schedule_for_date, up to the call of backtracking_search                *)
(***************************************************************************)
ScheduleForDate ==
    /\ pc = "idle"
    /\ IF EmptyInputMessage(doctors, patients) # ""
       THEN /\ outcome' = [NoOutcome EXCEPT !.msg = EmptyInputMessage(doctors, patients)]
            /\ pc' = "done"
            /\ UNCHANGED <<domains, appointments>>
       ELSE /\ domains' = build_domains(patients, doctors, slots)
            /\ appointments' = IF clear_existing
                               THEN clear_appointments_for_date(appointments, TheDate)
                               ELSE appointments
            /\ outcome' = [NoOutcome EXCEPT !.built = TRUE, !.searched = TRUE]
            /\ pc' = "searching"
    /\ UNCHANGED <<doctors, patients, slots, clear_existing,
                   assigned, capacity_map, stack, result>>

\* backtrack(), lines 215-216: every patient is assigned.
Succeed ==
    /\ pc = "searching"
    /\ Complete(assigned, domains)
    /\ result' = [status |-> "ok", mapping |-> assigned]
    /\ stack' = <<>>
    /\ pc' = "returned"
    /\ UNCHANGED <<doctors, patients, slots, clear_existing, appointments,
                   domains, assigned, capacity_map, outcome>>

\* backtrack(), lines 218-224: select a patient and order its values
\* (lines 219-220: no patient could be selected, the call returns None).
Select ==
    /\ pc = "searching"
    /\ ~Complete(assigned, domains)
    /\ LET var == select_unassigned_var(domains, assigned, patients)
       IN  IF var = 0
           THEN /\ stack' = stack
                /\ result' = IF stack = <<>> THEN [status |-> "fail", mapping |-> <<>>]
                              ELSE result
                /\ pc' = IF stack = <<>> THEN "returned" ELSE "undo"
           ELSE /\ stack' = Append(stack, [var |-> var,
                                           domain_vals |-> SortBySlot(domains[var]),
                                           i |-> 1,
                                           removed_snapshot |-> <<>>,
                                           before |-> NoSnapshot])
                /\ result' = result
                /\ pc' = "loop"
    /\ UNCHANGED <<doctors, patients, slots, clear_existing, appointments,
                   domains, assigned, capacity_map, outcome>>

\* Lines 231-232: the value is full, continue with the next one.
SkipValue ==
    /\ pc = "loop"
    /\ Top.i <= Len(Top.domain_vals)
    /\ LoopSaturated(capacity_map, Caps, Top.domain_vals[Top.i])
    /\ stack' = [stack EXCEPT ![Len(stack)].i = @ + 1]
    /\ UNCHANGED <<doctors, patients, slots, clear_existing, appointments,
                   pc, domains, assigned, capacity_map, result, outcome>>

\* Lines 235-236: tentatively assign. The frame keeps, in `before`, the
\* domains, the assignment and the capacity map as they are on entry to this
\* iteration of the value loop.
Place ==
    /\ pc = "loop"
    /\ Top.i <= Len(Top.domain_vals)
    /\ ~LoopSaturated(capacity_map, Caps, Top.domain_vals[Top.i])
    /\ assigned' = Put(assigned, Top.var, Top.domain_vals[Top.i])
    /\ capacity_map' = Increment(capacity_map, Top.domain_vals[Top.i])
    /\ stack' = [stack EXCEPT ![Len(stack)].before =
                     [domains |-> domains, assigned |-> assigned,
                      capacity_map |-> capacity_map]]
    /\ pc' = "placed"
    /\ UNCHANGED <<doctors, patients, slots, clear_existing, appointments,
                   domains, result, outcome>>

\* Lines 239-262: forward checking, then the recursive call or the undo.
Propagate ==
    /\ pc = "placed"
    /\ LET fc == ForwardCheck(domains, assigned, capacity_map, Caps)
       IN  /\ domains' = fc.domains
           /\ stack' = [stack EXCEPT ![Len(stack)].removed_snapshot = fc.removed]
           /\ pc' = IF fc.failure THEN "undo" ELSE "searching"
    /\ UNCHANGED <<doctors, patients, slots, clear_existing, appointments,
                   assigned, capacity_map, result, outcome>>

\* Lines 267-276: undo the placement, then the next value.
Undo ==
    /\ pc = "undo"
    /\ assigned' = Del(assigned, Top.var)
    /\ capacity_map' = Decrement(capacity_map, Top.domain_vals[Top.i])
    /\ domains' = RestoreDomains(domains, Top.removed_snapshot, 1)
    /\ stack' = [stack EXCEPT ![Len(stack)].i = @ + 1,
                              ![Len(stack)].removed_snapshot = <<>>]
    /\ pc' = "loop"
    /\ UNCHANGED <<doctors, patients, slots, clear_existing, appointments,
                   result, outcome>>

\* Line 278: every value was tried, this call returns None.
Exhausted ==
    /\ pc = "loop"
    /\ Top.i > Len(Top.domain_vals)
    /\ stack' = SubSeq(stack, 1, Len(stack) - 1)
    /\ IF Len(stack) = 1
       THEN /\ result' = [status |-> "fail", mapping |-> <<>>]
            /\ pc' = "returned"
       ELSE /\ result' = result
            /\ pc' = "undo"
    /\ UNCHANGED <<doctors, patients, slots, clear_existing, appointments,
                   domains, assigned, capacity_map, outcome>>

\* The rows save_appointment inserts, one for each item of the assignment
\* (written here in the order of the patient ids).
RECURSIVE SavedRows(_, _)
SavedRows(mapping, todo) ==
    IF todo = {} THEN <<>>
    ELSE LET pid == CHOOSE x \in todo : \A y \in todo : x <= y
         IN  <<[patient_id |-> pid, doctor_id |-> mapping[pid][1],
                slot |-> mapping[pid][2], date |-> TheDate]>>
             \o SavedRows(mapping, todo \ {pid})

\* schedule_for_date, lines 309-329.
Finish ==
    /\ pc = "returned"
    /\ IF result.status = "fail"
       THEN /\ outcome' = [outcome EXCEPT !.ok = FALSE, !.msg = MsgInfeasible]
            /\ UNCHANGED appointments
       ELSE /\ outcome' = [outcome EXCEPT !.ok = TRUE, !.msg = MsgScheduled]
            /\ appointments' = appointments \o SavedRows(result.mapping, DOMAIN result.mapping)
    /\ pc' = "done"
    /\ UNCHANGED <<doctors, patients, slots, clear_existing,
                   domains, assigned, capacity_map, stack, result>>

Next ==
    \/ ScheduleForDate
    \/ Succeed
    \/ Select
    \/ SkipValue
    \/ Place
    \/ Propagate
    \/ Undo
    \/ Exhausted
    \/ Finish

Spec == Init /\ [][Next]_vars

SpecWide == InitWide /\ [][Next]_vars

SpecDate == InitDate /\ [][Next]_vars

\* schedule_for_date runs synchronously to its return: a step that can be
\* taken is taken.
FairSpec == Init /\ [][Next]_vars /\ WF_vars(Next)

(***************************************************************************)
(* The constraints of a schedule, stated on the inputs alone               *)
(***************************************************************************)
PatientIds == 1..Len(patients)
DoctorIds == 1..Len(doctors)
AllValues == {<<d, s>> : d \in DoctorIds, s \in Range(slots)}
Returned == result.status = "ok"
Failed == result.status = "fail"
Mapping == result.mapping

RequiresSpecialty(p) == p.needs_specialist = 1 /\ p.specialty_required # ""
MatchesSpecialty(p, d) ==
    d.specialty # "" /\ Lower(d.specialty) = Lower(p.specialty_required)
PreferredSet(p) ==
    {p.preferred_slots[i].label : i \in 1..Len(p.preferred_slots)} \ {0}
Load(f, v) == Cardinality({p \in DOMAIN f : f[p] = v})

ValidAssignment(f) ==
    /\ \A p \in PatientIds :
          /\ RequiresSpecialty(patients[p]) => MatchesSpecialty(patients[p], doctors[f[p][1]])
          /\ PreferredSet(patients[p]) # {} => f[p][2] \in PreferredSet(patients[p])
    /\ \A v \in AllValues : Load(f, v) <= doctors[v[1]].capacity_per_slot

SomeValidAssignment == \E f \in [PatientIds -> AllValues] : ValidAssignment(f)

\* C1: in a returned mapping no (doctor, slot) pair holds more patients than
\* the doctor's capacity_per_slot.
C1_Capacity ==
    Returned => \A v \in AllValues : Load(Mapping, v) <= doctors[v[1]].capacity_per_slot

C1_Witness ==
    /\ Returned
    /\ \E v \in AllValues : Load(Mapping, v) = 2 /\ doctors[v[1]].capacity_per_slot = 2
    /\ \E v \in AllValues : Load(Mapping, v) = 1 /\ doctors[v[1]].capacity_per_slot = 1

\* C2: the search returns a mapping if and only if some complete assignment
\* satisfies the specialty, preferred-slot and capacity constraints, and it
\* returns failure exactly when none does.
C2_FoundIffExists ==
    /\ Returned => SomeValidAssignment
    /\ Failed => ~SomeValidAssignment

C2_Witness ==
    /\ Failed
    /\ Len(patients) = 3
    /\ \A p \in PatientIds : build_domains(patients, doctors, slots)[p] # <<>>
    /\ \A d \in DoctorIds : doctors[d].capacity_per_slot >= 1

\* C3: a returned mapping has exactly the patient ids as keys, each mapped
\* to one (doctor, slot) pair.
C3_AllPatients ==
    Returned => /\ DOMAIN Mapping = PatientIds
                /\ \A p \in PatientIds : Mapping[p] \in AllValues

C3_Witness == Returned /\ Len(patients) = 3

\* C4 as stated: in a returned mapping every patient whose needs_specialist
\* flag is set has a doctor whose specialty equals specialty_required,
\* compared case-insensitively.
C4_AsStated ==
    Returned => \A p \in PatientIds :
        patients[p].needs_specialist = 1 =>
            Lower(doctors[Mapping[p][1]].specialty) = Lower(patients[p].specialty_required)

\* C4 amended: in a returned mapping every patient whose needs_specialist
\* flag is set and whose specialty_required is not empty has a doctor with a
\* specialty equal to it, compared case-insensitively.
C4_Specialty ==
    Returned => \A p \in PatientIds :
        RequiresSpecialty(patients[p]) => MatchesSpecialty(patients[p], doctors[Mapping[p][1]])

C4_Witness ==
    /\ Returned
    /\ \E p \in PatientIds :
          /\ RequiresSpecialty(patients[p])
          /\ doctors[Mapping[p][1]].specialty # patients[p].specialty_required
    /\ \E d \in DoctorIds : doctors[d].specialty \in {"", "Derm"}

\* C5: in a returned mapping every patient with a non-empty preferred-slot
\* set has a slot of that set, which is a slot of the day.
C5_Preferred ==
    Returned => \A p \in PatientIds :
        PreferredSet(patients[p]) # {} =>
            Mapping[p][2] \in PreferredSet(patients[p]) \cap Range(slots)

C5_Witness ==
    /\ Returned
    /\ \E p \in PatientIds :
          /\ Cardinality(PreferredSet(patients[p])) = 2
          /\ Mapping[p][2] = MaxSlots
    /\ \E p \in PatientIds : PreferredSet(patients[p]) = {}

Built == build_domains(patients, doctors, slots)
IsEmergency(p) == patients[p].emergency # 0
InSearch == pc \in {"searching", "loop", "placed", "undo"}

\* C6: a selection step selects an emergency patient whenever an unassigned
\* patient is an emergency, and no non-emergency patient is assigned while an
\* emergency patient is unassigned.
C6_EmergencyFirst ==
    /\ [][(pc = "searching" /\ pc' = "loop"
           /\ \E q \in PatientIds \ DOMAIN assigned : IsEmergency(q))
          => IsEmergency(stack'[Len(stack')].var)]_vars
    /\ [](InSearch => ~ \E p \in DOMAIN assigned, q \in PatientIds \ DOMAIN assigned :
                           ~IsEmergency(p) /\ IsEmergency(q))

C6_Witness ==
    /\ pc = "placed"
    /\ IsEmergency(Top.var)
    /\ \E q \in PatientIds \ DOMAIN assigned :
          ~IsEmergency(q) /\ q < Top.var /\ Len(Built[q]) < Len(Built[Top.var])
    /\ \E q \in PatientIds \ DOMAIN assigned : IsEmergency(q)

\* C7: on success the root patient has the first value of its built domain,
\* in ascending slot order with ties in doctor-list order, that some complete
\* valid assignment extends; a sole patient gets the earliest slot of its
\* domain.
Root == select_unassigned_var(Built, <<>>, patients)
FeasibleWith(p, v) ==
    \E f \in [PatientIds -> AllValues] : f[p] = v /\ ValidAssignment(f)
Before(v, w) == v[2] < w[2] \/ (v[2] = w[2] /\ v[1] < w[1])

C7_FirstFeasible ==
    Returned =>
        /\ Mapping[Root] \in Range(Built[Root])
        /\ FeasibleWith(Root, Mapping[Root])
        /\ \A w \in Range(Built[Root]) : Before(w, Mapping[Root]) => ~FeasibleWith(Root, w)
        /\ Len(patients) = 1 => \A w \in Range(Built[1]) : Mapping[1][2] <= w[2]

C7_Witness ==
    /\ Returned
    /\ Len(patients) = 3
    /\ \E w \in Range(Built[Root]) :
          /\ Before(w, Mapping[Root])
          /\ w[2] = Mapping[Root][2]
          /\ doctors[w[1]].capacity_per_slot >= 1

\* C8 as stated: when build_domains gives some patient an empty domain, the
\* run fails and the assignment and the capacity map are never changed.
C8_AsStated ==
    (outcome.built /\ \E p \in PatientIds : Built[p] = <<>>) =>
        /\ assigned = <<>>
        /\ capacity_map = <<>>
        /\ ~Returned

\* C9: with an empty doctor list or an empty patient list the call fails, no
\* domain is built and the search is not run, and its message is not the one
\* of a search that found no schedule.
C9_EmptyInput ==
    /\ (doctors = <<>> \/ patients = <<>>) =>
          /\ ~outcome.built /\ ~outcome.searched
          /\ domains = <<>> /\ result = NoResult
          /\ pc \in {"idle", "done"}
          /\ pc = "done" => /\ ~outcome.ok
                            /\ outcome.msg \in {MsgNoDoctors, MsgNoPatients}
                            /\ outcome.msg # MsgInfeasible
    /\ (pc = "done" /\ Failed) => outcome.msg = MsgInfeasible

C9_Witness == pc = "done" /\ patients = <<>> /\ doctors # <<>>

\* The active calls of backtrack: one for each frame of the stack and the
\* call that was just entered. The recursion depth counts the calls nested in
\* the first one.
ActiveCalls == Len(stack) + (IF pc = "searching" THEN 1 ELSE 0)
RecursionDepth == IF ActiveCalls = 0 THEN 0 ELSE ActiveCalls - 1

\* C10: the search terminates in exactly one of its two outcomes, a complete
\* mapping or failure, and the recursion depth never exceeds the number of
\* patients.

C10_Terminates ==
    /\ <>(pc = "done")
    /\ [](RecursionDepth <= Len(patients))
    /\ [](pc = "returned" =>
            \/ Returned /\ DOMAIN Mapping = PatientIds
            \/ Failed /\ Mapping = <<>>)

C10_Witness ==
    /\ pc = "searching"
    /\ Len(patients) = 3
    /\ RecursionDepth = Len(patients)
    /\ \E k \in 1..Len(stack) : stack[k].i > 1

(***************************************************************************)
(* The undo of a placement                                                 *)
(***************************************************************************)
UndoStep == pc = "undo" /\ pc' = "loop"
SelectStep == pc = "searching" /\ pc' = "loop"
SkipStep == pc = "loop" /\ pc' = "loop" /\ Len(stack') = Len(stack)
Unassigned == PatientIds \ DOMAIN assigned
Values(dom) == Range(dom)
HasDuplicate(dom) == \E i, j \in 1..Len(dom) : i < j /\ dom[i] = dom[j]
AllCapsPositive == \A d \in DoctorIds : doctors[d].capacity_per_slot >= 1

\* C12 as stated: an undo leaves every patient's domain the sequence it was
\* immediately before the placement: same elements, same multiplicity, same
\* order.
C12_AsStated == [][UndoStep => domains' = Top.before.domains]_vars

\* C13 as stated: no domain ever holds the same (doctor, slot) pair twice,
\* and the removed values that an undo puts back are values that forward
\* checking took out of the domain.
C13_AsStated ==
    /\ \A p \in DOMAIN domains : ~HasDuplicate(domains[p])
    /\ pc = "undo" =>
          \A k \in 1..Len(Top.removed_snapshot) :
              Values(Top.removed_snapshot[k][2])
                  \cap Values(domains[Top.removed_snapshot[k][1]]) = {}

\* C14 as stated: the selected patient is, in the pool, one whose domain has
\* the fewest distinct values, and the earliest of the list among those.
PoolSet ==
    IF \E q \in Unassigned : IsEmergency(q)
    THEN {q \in Unassigned : IsEmergency(q)}
    ELSE Unassigned
DistinctCount(p) == Cardinality(Values(domains[p]))

C14_AsStated ==
    [][SelectStep =>
          LET v == stack'[Len(stack')].var
          IN  /\ v \in PoolSet
              /\ \A q \in PoolSet : DistinctCount(v) <= DistinctCount(q)
              /\ \A q \in PoolSet : q < v => DistinctCount(v) < DistinctCount(q)]_vars

\* C15 as stated: whenever a patient is selected its values are tried in
\* ascending slot order, values of one slot in the order of the doctor list.
C15_AsStated ==
    \A k \in 1..Len(stack) :
        \A i, j \in 1..Len(stack[k].domain_vals) :
            i < j => \/ stack[k].domain_vals[i][2] < stack[k].domain_vals[j][2]
                     \/ /\ stack[k].domain_vals[i][2] = stack[k].domain_vals[j][2]
                        /\ stack[k].domain_vals[i][1] <= stack[k].domain_vals[j][1]

\* C16: in every state of the search the usage recorded for a (doctor, slot)
\* key is at most the doctor's capacity.
C16_UsageWithinCapacity ==
    \A key \in DOMAIN capacity_map :
        capacity_map[key] <= doctors[key[1]].capacity_per_slot

C16_Witness ==
    /\ pc = "placed"
    /\ Len(stack) >= 2
    /\ \E key \in DOMAIN capacity_map :
          capacity_map[key] = 2 /\ doctors[key[1]].capacity_per_slot = 2

\* C17: the capacity map is the sparse count of the assignment: an entry
\* equals the number of patients assigned to its pair, a pair has no entry
\* exactly when nobody is assigned to it, and the key an undo decrements is
\* present.
C17_SparseCount ==
    /\ DOMAIN capacity_map = {assigned[p] : p \in DOMAIN assigned}
    /\ \A key \in DOMAIN capacity_map : capacity_map[key] = Load(assigned, key)
    /\ pc = "undo" => Top.domain_vals[Top.i] \in DOMAIN capacity_map

C17_Witness ==
    /\ pc = "loop"
    /\ Len(stack) >= 2
    /\ Top.i > 1
    /\ \E key \in DOMAIN capacity_map : capacity_map[key] = 1
    /\ Top.domain_vals[Top.i - 1] \notin DOMAIN capacity_map

\* C18: with capacities of at least 1, when a patient is selected no
\* unassigned patient's domain holds a pair whose usage has reached the
\* doctor's capacity, and the value loop never skips a value.
C18_NoSaturatedValue ==
    /\ []((AllCapsPositive /\ pc = "searching") =>
             \A q \in Unassigned : \A v \in Values(domains[q]) :
                 usage(capacity_map, v) < doctors[v[1]].capacity_per_slot)
    /\ [][SkipStep => ~AllCapsPositive]_vars

C18_Witness ==
    /\ pc = "searching"
    /\ AllCapsPositive
    /\ capacity_map # <<>>
    /\ \E q \in Unassigned : Len(domains[q]) < Len(Built[q])
    /\ \E k \in 1..Len(stack) : stack[k].i > 1

\* C19: an undo gives back the assignment, the capacity map and the set of
\* values of every domain as they were before the placement; when the search
\* fails the assignment and the capacity map are empty and every domain holds
\* the set of values build_domains gave it.
C19_UndoRestores ==
    /\ [][UndoStep =>
             /\ assigned' = Top.before.assigned
             /\ capacity_map' = Top.before.capacity_map
             /\ \A p \in PatientIds :
                    Values(domains'[p]) = Values(Top.before.domains[p])]_vars
    /\ []((pc = "returned" /\ Failed) =>
             /\ assigned = <<>>
             /\ capacity_map = <<>>
             /\ \A p \in PatientIds : Values(domains[p]) = Values(Built[p]))

C19_Witness ==
    /\ pc = "returned"
    /\ Failed
    /\ Len(patients) = 3
    /\ \E p \in PatientIds : domains[p] # Built[p]
    /\ \A p \in PatientIds : Built[p] # <<>>

(***************************************************************************)
(* The appointments table across a call of schedule_for_date               *)
(***************************************************************************)
DateRows ==
    LET OfDate(r) == r.date = TheDate
    IN  SelectSeq(appointments, OfDate)

\* C20: with clear_existing and non-empty doctor and patient lists the rows
\* of the date are deleted before the search runs; when the search fails the
\* call returns failure and the date has no row, and on success the rows of
\* the date are one for each patient, with the doctor and slot of the
\* returned mapping.
C20_ClearedBeforeSearch ==
    (clear_existing /\ doctors # <<>> /\ patients # <<>>) =>
        /\ pc \in {"searching", "loop", "placed", "undo", "returned"} =>
              DateRows = <<>>
        /\ (pc = "done" /\ Failed) => ~outcome.ok /\ DateRows = <<>>
        /\ (pc = "done" /\ Returned) =>
              /\ outcome.ok
              /\ Len(DateRows) = Len(patients)
              /\ \A p \in PatientIds :
                    \E k \in 1..Len(DateRows) :
                        /\ DateRows[k].patient_id = p
                        /\ <<DateRows[k].doctor_id, DateRows[k].slot>> = Mapping[p]

C20_Witness ==
    /\ pc = "done"
    /\ Failed
    /\ clear_existing
    /\ Len(patients) = 2
    /\ \E k \in 1..Len(appointments) : appointments[k].date = OtherDate

====
